---- MODULE Spec2Model ----
(***************************************************************************)
(* A model of project1.py: an HTML document is fetched from a URL or a     *)
(* local file, its <table> blocks are cut out by substring search, each    *)
(* table is parsed into rows of cleaned cells, and each non-empty table is *)
(* written as output_<N>.csv.                                              *)
(*                                                                         *)
(* Text is a sequence of one-character strings.  Positions are Python's:   *)
(* 0-based, and -1 is str.find's "not found".                              *)
(***************************************************************************)
EXTENDS Integers, Sequences, FiniteSets, TLC

(***************************************************************************)
(* Bounds of the model.                                                    *)
(***************************************************************************)
\* longest text handed to clean_html in SpecClean
MaxTextLen == 5
\* longest cell handed to save_csv in SpecCsv
MaxCellLen == 2
\* most chunks of a document handed to extract_tables in SpecExtract
MaxExtractChunks == 6
\* most chunks of a document of the table-level family of Spec
MaxDocChunks == 5
\* most chunks inside the single row of a document of the cell-level family
MaxRowChunks == 3
\* most chunks of a body served at a URL
MaxUrlChunks == 3
\* the cell loop of parse_table is followed until a row holds this many cells
MaxCells == 4

(***************************************************************************)
(* The literals of the program.                                            *)
(***************************************************************************)
LT == <<"<">>
GT == <<">">>
TABLE_OPEN == <<"<", "t", "a", "b", "l", "e">>
TABLE_CLOSE == <<"<", "/", "t", "a", "b", "l", "e", ">">>
TR_OPEN == <<"<", "t", "r">>
TR_CLOSE == <<"<", "/", "t", "r", ">">>
TD_OPEN == <<"<", "t", "d">>
TD_CLOSE == <<"<", "/", "t", "d", ">">>
TH_OPEN == <<"<", "t", "h">>
TH_CLOSE == <<"<", "/", "t", "h", ">">>
HTTP == <<"h", "t", "t", "p", ":", "/", "/">>
HTTPS == <<"h", "t", "t", "p", "s", ":", "/", "/">>
QUOTE == <<"\"">>
COMMA == <<",">>
NEWLINE == <<"\n">>

\* the characters str.strip() removes (those the model's alphabet can hold)
Whitespace == {" ", "\t", "\n", "\r", "\f"}

(***************************************************************************)
(* Python's str primitives.                                                *)
(***************************************************************************)
MinOf(S) == CHOOSE x \in S : \A y \in S : x <= y

MaxOf(S) == CHOOSE x \in S : \A y \in S : y <= x

\* a slice or search index, as Python normalises it: negative counts from the end
NormIndex(n, i) ==
  IF i < 0 THEN (IF n + i < 0 THEN 0 ELSE n + i)
  ELSE IF i > n THEN n ELSE i

\* sub occurs in s at 0-based position i
IsAt(s, sub, i) ==
  /\ i >= 0
  /\ i + Len(sub) <= Len(s)
  /\ \A k \in 1..Len(sub) : s[i + k] = sub[k]

\* s.startswith(p)
StartsWith(s, p) == IsAt(s, p, 0)

\* s.find(sub, start): the lowest position >= start where sub occurs, or -1
Find(s, sub, start) ==
  LET from == IF start < 0 THEN NormIndex(Len(s), start) ELSE start
      hits == {i \in from..(Len(s) - Len(sub)) : IsAt(s, sub, i)}
  IN IF hits = {} THEN -1 ELSE MinOf(hits)

\* sub in s
Contains(s, sub) == \E i \in 0..(Len(s) - Len(sub)) : IsAt(s, sub, i)

\* s[a:b]
Slice(s, a, b) ==
  LET lo == NormIndex(Len(s), a)
      hi == NormIndex(Len(s), b)
  IN IF lo >= hi THEN <<>> ELSE SubSeq(s, lo + 1, hi)

\* s[a:]
SliceFrom(s, a) == Slice(s, a, Len(s))

\* s.replace(c, by) for a one-character c
RECURSIVE Replace(_, _, _)
Replace(s, c, by) ==
  IF s = <<>> THEN <<>>
  ELSE (IF Head(s) = c THEN by ELSE <<Head(s)>>) \o Replace(Tail(s), c, by)

\* s.strip()
Strip(s) ==
  LET keep == {k \in 1..Len(s) : s[k] \notin Whitespace}
  IN IF keep = {} THEN <<>> ELSE SubSeq(s, MinOf(keep), MaxOf(keep))

\* sep.join(parts)
RECURSIVE Join(_, _)
Join(parts, sep) ==
  IF parts = <<>> THEN <<>>
  ELSE IF Len(parts) = 1 THEN parts[1]
  ELSE parts[1] \o sep \o Join(Tail(parts), sep)

\* the concatenation of a sequence of texts
RECURSIVE Concat(_)
Concat(parts) ==
  IF parts = <<>> THEN <<>> ELSE Head(parts) \o Concat(Tail(parts))

\* all sequences over S of length at most n
SeqsUpTo(S, n) == UNION {[1..k -> S] : k \in 0..n}

(***************************************************************************)
(* clean_html                                                              *)
(***************************************************************************)
\* the while loop of clean_html: delete first "<" .. first ">" after it
RECURSIVE clean_html_loop(_)
clean_html_loop(text) ==
  IF ~(Contains(text, LT) /\ Contains(text, GT)) THEN text
  ELSE LET lt == Find(text, LT, 0)
           gt == Find(text, GT, lt)
       IN IF lt = -1 \/ gt = -1 THEN text
          ELSE clean_html_loop(Slice(text, 0, lt) \o SliceFrom(text, gt + 1))

\* clean_html with the replacement of \r left out
clean_html_keep_cr(text) == Strip(Replace(clean_html_loop(text), "\n", <<" ">>))

clean_html(text) ==
  Strip(Replace(Replace(clean_html_loop(text), "\n", <<" ">>), "\r", <<" ">>))

(***************************************************************************)
(* extract_tables                                                          *)
(***************************************************************************)
RECURSIVE extract_tables_loop(_, _, _)
extract_tables_loop(html, pos, tables) ==
  LET start == Find(html, TABLE_OPEN, pos)
  IN IF start = -1 THEN tables
     ELSE LET end == Find(html, TABLE_CLOSE, start)
          IN IF end = -1 THEN tables
             ELSE extract_tables_loop(html, end + 8,
                                      Append(tables, Slice(html, start, end + 8)))

\* extract_tables with "</table>" searched from pos instead of from start
RECURSIVE extract_tables_loop_from_pos(_, _, _)
extract_tables_loop_from_pos(html, pos, tables) ==
  LET start == Find(html, TABLE_OPEN, pos)
  IN IF start = -1 THEN tables
     ELSE LET end == Find(html, TABLE_CLOSE, pos)
          IN IF end = -1 THEN tables
             ELSE extract_tables_loop_from_pos(html, end + 8,
                                               Append(tables, Slice(html, start, end + 8)))

extract_tables_from_pos(html) == extract_tables_loop_from_pos(html, 0, <<>>)

extract_tables(html) == extract_tables_loop(html, 0, <<>>)

(***************************************************************************)
(* save_csv                                                                *)
(***************************************************************************)
\* csv_field with the double quotes of the cell left as they are
csv_field_unescaped(cell) == QUOTE \o cell \o QUOTE

\* '"{}"'.format(cell.replace('"', '""'))
csv_field(cell) == QUOTE \o Replace(cell, "\"", <<"\"", "\"">>) \o QUOTE

\* ",".join([...  for cell in row])
csv_line(row) == Join([k \in 1..Len(row) |-> csv_field(row[k])], COMMA)

\* save_csv with the rows of no cells left out
save_csv_skip_blank(rows) ==
  Concat([k \in 1..Len(rows) |->
            IF rows[k] = <<>> THEN <<>> ELSE csv_line(rows[k]) \o NEWLINE])

\* what save_csv writes to the file: line + "\n" for every row
save_csv(rows) ==
  Concat([k \in 1..Len(rows) |-> csv_line(rows[k]) \o NEWLINE])

(***************************************************************************)
(* The inputs the specifications draw from.                                *)
(***************************************************************************)
TABLE_TAG == TABLE_OPEN \o GT
TR_TAG == TR_OPEN \o GT
TD_TAG == TD_OPEN \o GT
TH_TAG == TH_OPEN \o GT
CELL_TD == TD_TAG \o <<"a">> \o TD_CLOSE
CELL_TH == TH_TAG \o <<"b">> \o TH_CLOSE
ROW_TD == TR_TAG \o CELL_TD \o TR_CLOSE

\* sys.argv[0], and the sources a run may be given
ProgName == <<"p">>
HttpUrl == HTTP \o <<"h">>
HttpsUrl == HTTPS \o <<"h">>
FilePath == <<"t">>
MissingPath == <<"n">>

\* the paths for which os.path.exists is true
ExistingPaths == {FilePath}

\* documents of the table-level family: tables, rows and stray tags in any order
DocChunks == {TABLE_TAG, TABLE_CLOSE, ROW_TD, TR_TAG, TR_CLOSE}

TableDocs == {Concat(c) : c \in SeqsUpTo(DocChunks, MaxDocChunks)}

\* documents of the cell-level family: one table whose first row holds any
\* mix of whole cells, stray markers and stray closing tags
RowChunks == {CELL_TD, CELL_TH, TD_TAG, TD_CLOSE, TH_OPEN, GT, TH_CLOSE, <<"c">>}

RowDocs ==
  {TABLE_TAG \o TR_TAG \o Concat(c) \o tail :
     c \in SeqsUpTo(RowChunks, MaxRowChunks),
     tail \in {TR_CLOSE \o TABLE_CLOSE, TABLE_CLOSE}}

\* the bodies served at the URLs
UrlDocs == {Concat(c) : c \in SeqsUpTo(DocChunks, MaxUrlChunks)}

\* the texts SpecClean hands to clean_html
CleanTexts ==
  SeqsUpTo({"<", ">", "a", " ", "\n", "\r"}, MaxTextLen)
    \cup {<<"<", "b", ">", "B", "o", "l", "d", "<", "/", "b", ">", " ", "t", "e", "x", "t">>,
          <<"l", "i", "n", "e", "1", "\n", "l", "i", "n", "e", "2">>,
          <<"\t", "3", " ", "<", " ", "5", " ", ">", " ", "2", "\f">>}

\* the grids SpecCsv hands to save_csv
CsvCells ==
  SeqsUpTo({"\"", ",", "a", "\n"}, MaxCellLen)
    \cup {<<"H", "e", " ", "s", "a", "i", "d", " ", "\"", "h", "i", "\"">>}

CsvRows == {<<>>} \cup {<<c>> : c \in CsvCells} \cup {<<c, d>> : c, d \in CsvCells}

CsvGrids == {<<r>> : r \in CsvRows} \cup {<<r, <<<<"a">>>>, r>> : r \in CsvRows}

\* the documents SpecExtract hands to extract_tables
ExtractChunks == {TABLE_OPEN, TABLE_CLOSE, GT, <<"x">>}

ExtractDocs == {Concat(c) : c \in SeqsUpTo(ExtractChunks, MaxExtractChunks)}

(***************************************************************************)
(* The state of a run.                                                     *)
(***************************************************************************)
VARIABLES
  pc,         \* where the run is
  argv,       \* sys.argv
  doc,        \* what the source holds: the URL's body or the file's content
  html,       \* main's html
  tables,     \* main's tables
  i,          \* the index of the table in hand (enumerate, start=1)
  rows,       \* parse_table's rows
  pos,        \* parse_table's pos
  row_start,  \* parse_table's row_start
  row_end,    \* parse_table's row_end
  row_html,   \* parse_table's row_html
  cells,      \* parse_table's cells
  cell_pos,   \* parse_table's cell_pos
  cell,       \* parse_table's cell: the stripped raw content of the last cell
  csv,        \* the output_<N>.csv files written by the run: N -> content
  page,       \* <<content>> once page.html is written by the run, else <<>>
  out,        \* what the run printed
  exit        \* the exit status, -1 while the run goes on

vars ==
  <<pc, argv, doc, html, tables, i, rows, pos, row_start, row_end, row_html,
    cells, cell_pos, cell, csv, page, out, exit>>

parse_vars == <<rows, pos, row_start, row_end, row_html, cells, cell_pos, cell>>

\* the values of the variables a run has not assigned yet
Unset ==
  /\ html = <<>>
  /\ tables = <<>>
  /\ i = 0
  /\ rows = <<>>
  /\ pos = 0
  /\ row_start = 0
  /\ row_end = 0
  /\ row_html = <<>>
  /\ cells = <<>>
  /\ cell_pos = 0
  /\ cell = <<>>
  /\ csv = <<>>
  /\ page = <<>>
  /\ out = <<>>
  /\ exit = -1

IsUrl(source) == StartsWith(source, HTTP) \/ StartsWith(source, HTTPS)

Init ==
  /\ pc = "main"
  /\ \/ argv = <<ProgName, FilePath>> /\ doc \in TableDocs \cup RowDocs
     \/ argv \in {<<ProgName, HttpUrl>>, <<ProgName, HttpsUrl>>} /\ doc \in UrlDocs
     \/ /\ argv \in {<<ProgName>>, <<ProgName, MissingPath>>,
                     <<ProgName, FilePath, FilePath>>}
        /\ doc = ROW_TD
  /\ Unset

(***************************************************************************)
(* main and fetch_html                                                     *)
(***************************************************************************)
\* main, lines 113-117: the argument count
MainArgs ==
  /\ pc = "main"
  /\ IF Len(argv) # 2
       THEN /\ out' = Append(out, "usage")
            /\ exit' = 1
            /\ pc' = "exit"
       ELSE /\ pc' = "fetch_html"
            /\ UNCHANGED <<out, exit>>
  /\ UNCHANGED <<argv, doc, html, tables, i, csv, page>>
  /\ UNCHANGED parse_vars

\* fetch_html, the URL branch: the body is saved as page.html and returned
FetchUrl ==
  /\ pc = "fetch_html"
  /\ IsUrl(argv[2])
  /\ html' = doc
  /\ page' = <<doc>>
  /\ out' = Append(out, "page saved")
  /\ pc' = "extract_tables"
  /\ UNCHANGED <<argv, doc, tables, i, csv, exit>>
  /\ UNCHANGED parse_vars

\* fetch_html, the file branch
FetchFile ==
  /\ pc = "fetch_html"
  /\ ~IsUrl(argv[2])
  /\ argv[2] \in ExistingPaths
  /\ html' = doc
  /\ pc' = "extract_tables"
  /\ UNCHANGED <<argv, doc, tables, i, csv, page, out, exit>>
  /\ UNCHANGED parse_vars

\* FetchNotFound with exit status 0
FetchNotFoundExitZero ==
  /\ pc = "fetch_html"
  /\ ~IsUrl(argv[2])
  /\ argv[2] \notin ExistingPaths
  /\ out' = Append(out, "source not found")
  /\ exit' = 0
  /\ pc' = "exit"
  /\ UNCHANGED <<argv, doc, html, tables, i, csv, page>>
  /\ UNCHANGED parse_vars

\* fetch_html, the else branch: neither a URL nor an existing path
FetchNotFound ==
  /\ pc = "fetch_html"
  /\ ~IsUrl(argv[2])
  /\ argv[2] \notin ExistingPaths
  /\ out' = Append(out, "source not found")
  /\ exit' = 1
  /\ pc' = "exit"
  /\ UNCHANGED <<argv, doc, html, tables, i, csv, page>>
  /\ UNCHANGED parse_vars

\* urlopen, read, decode or open raises: nothing catches it, the run dies
FetchRaises ==
  /\ pc = "fetch_html"
  /\ IsUrl(argv[2]) \/ argv[2] \in ExistingPaths
  /\ exit' = 1
  /\ pc' = "crash"
  /\ UNCHANGED <<argv, doc, html, tables, i, csv, page, out>>
  /\ UNCHANGED parse_vars

\* ExtractTables with the no-tables exit leaving status 0
ExtractTablesExitZero ==
  /\ pc = "extract_tables"
  /\ tables' = extract_tables(html)
  /\ IF tables' = <<>>
       THEN /\ out' = Append(out, "no tables")
            /\ exit' = 0
            /\ pc' = "exit"
            /\ i' = i
       ELSE /\ i' = 1
            /\ pc' = "parse_table"
            /\ UNCHANGED <<out, exit>>
  /\ UNCHANGED <<argv, doc, html, csv, page>>
  /\ UNCHANGED parse_vars

\* main, lines 119-123: extract_tables and the no-tables exit
ExtractTables ==
  /\ pc = "extract_tables"
  /\ tables' = extract_tables(html)
  /\ IF tables' = <<>>
       THEN /\ out' = Append(out, "no tables")
            /\ exit' = 1
            /\ pc' = "exit"
            /\ i' = i
       ELSE /\ i' = 1
            /\ pc' = "parse_table"
            /\ UNCHANGED <<out, exit>>
  /\ UNCHANGED <<argv, doc, html, csv, page>>
  /\ UNCHANGED parse_vars

(***************************************************************************)
(* parse_table                                                             *)
(***************************************************************************)
\* parse_table, lines 61-62
ParseTable ==
  /\ pc = "parse_table"
  /\ rows' = <<>>
  /\ pos' = 0
  /\ pc' = "row_loop"
  /\ UNCHANGED <<argv, doc, html, tables, i, csv, page, out, exit>>
  /\ UNCHANGED <<row_start, row_end, row_html, cells, cell_pos, cell>>

\* RowLoop with a "<tr" that is never closed taken as a row to the table's end
RowLoopToEnd ==
  /\ pc = "row_loop"
  /\ LET table_html == tables[i]
         rs == Find(table_html, TR_OPEN, pos)
         found == IF rs = -1 THEN row_end ELSE Find(table_html, TR_CLOSE, rs)
         re == IF found = -1 THEN Len(table_html) ELSE found
     IN /\ row_start' = rs
        /\ row_end' = re
        /\ IF rs = -1
             THEN /\ pc' = "save_csv"
                  /\ UNCHANGED <<row_html, cells, cell_pos>>
             ELSE /\ row_html' = Slice(table_html, rs, re)
                  /\ cells' = <<>>
                  /\ cell_pos' = 0
                  /\ pc' = "cell_loop"
  /\ UNCHANGED <<argv, doc, html, tables, i, csv, page, out, exit>>
  /\ UNCHANGED <<rows, pos, cell>>

\* one pass of the row loop down to the cell loop, lines 64-72; a missing
\* "<tr" or "</tr>" returns rows
RowLoop ==
  /\ pc = "row_loop"
  /\ LET table_html == tables[i]
         rs == Find(table_html, TR_OPEN, pos)
         re == IF rs = -1 THEN row_end ELSE Find(table_html, TR_CLOSE, rs)
     IN /\ row_start' = rs
        /\ row_end' = re
        /\ IF rs = -1 \/ re = -1
             THEN /\ pc' = "save_csv"
                  /\ UNCHANGED <<row_html, cells, cell_pos>>
             ELSE /\ row_html' = Slice(table_html, rs, re)
                  /\ cells' = <<>>
                  /\ cell_pos' = 0
                  /\ pc' = "cell_loop"
  /\ UNCHANGED <<argv, doc, html, tables, i, csv, page, out, exit>>
  /\ UNCHANGED <<rows, pos, cell>>

\* td_start and th_start of the cell loop, lines 74-75
TdStart(row, from) == Find(row, TD_OPEN, from)

ThStart(row, from) == Find(row, TH_OPEN, from)

\* line 78: the row's next cell is a <td
TakesTd(td_start, th_start) ==
  td_start # -1 /\ (td_start < th_start \/ th_start = -1)

\* lines 79-81 and 85-87: >, the closing tag, the stripped content between
CellStart(row, marker) == Find(row, GT, marker) + 1

CellEnd(row, closing, cell_start) == Find(row, closing, cell_start)

\* one pass of the cell loop, lines 74-89; with no marker left the row is
\* appended and the row loop goes on, lines 90-91
CellLoop ==
  /\ pc = "cell_loop"
  /\ LET td_start == TdStart(row_html, cell_pos)
         th_start == ThStart(row_html, cell_pos)
     IN IF td_start = -1 /\ th_start = -1
          THEN /\ rows' = Append(rows, cells)
               /\ pos' = row_end + 5
               /\ pc' = "row_loop"
               /\ UNCHANGED <<cells, cell_pos, cell>>
          ELSE /\ Len(cells) < MaxCells
               /\ LET td == TakesTd(td_start, th_start)
                      cell_start == CellStart(row_html, IF td THEN td_start ELSE th_start)
                      cell_end == CellEnd(row_html, IF td THEN TD_CLOSE ELSE TH_CLOSE,
                                          cell_start)
                  IN /\ cell' = Strip(Slice(row_html, cell_start, cell_end))
                     /\ cells' = Append(cells, clean_html(cell'))
                     /\ cell_pos' = cell_end + 5
               /\ pc' = "cell_loop"
               /\ UNCHANGED <<rows, pos>>
  /\ UNCHANGED <<argv, doc, html, tables, i, csv, page, out, exit>>
  /\ UNCHANGED <<row_start, row_end, row_html>>

(***************************************************************************)
(* main's loop over the tables, lines 125-129                              *)
(***************************************************************************)
\* SaveCsv with the files numbered by how many were written, not by i
SaveCsvDense ==
  /\ pc = "save_csv"
  /\ IF rows # <<>>
       THEN /\ csv' = ((Cardinality(DOMAIN csv) + 1) :> save_csv(rows)) @@ csv
            /\ out' = Append(out, "csv saved")
       ELSE UNCHANGED <<csv, out>>
  /\ IF i < Len(tables)
       THEN /\ i' = i + 1
            /\ pc' = "parse_table"
            /\ exit' = exit
       ELSE /\ i' = i
            /\ pc' = "exit"
            /\ exit' = 0
  /\ UNCHANGED <<argv, doc, html, tables, page>>
  /\ UNCHANGED parse_vars

\* rows is back from parse_table: a non-empty table is saved as
\* output_<i>.csv, and the loop goes on to the next table or the run ends
SaveCsv ==
  /\ pc = "save_csv"
  /\ IF rows # <<>>
       THEN /\ csv' = (i :> save_csv(rows)) @@ csv
            /\ out' = Append(out, "csv saved")
       ELSE UNCHANGED <<csv, out>>
  /\ IF i < Len(tables)
       THEN /\ i' = i + 1
            /\ pc' = "parse_table"
            /\ exit' = exit
       ELSE /\ i' = i
            /\ pc' = "exit"
            /\ exit' = 0
  /\ UNCHANGED <<argv, doc, html, tables, page>>
  /\ UNCHANGED parse_vars

Next ==
  \/ MainArgs
  \/ FetchUrl
  \/ FetchFile
  \/ FetchNotFound
  \/ FetchRaises
  \/ ExtractTables
  \/ ParseTable
  \/ RowLoop
  \/ CellLoop
  \/ SaveCsv

Spec == Init /\ [][Next]_vars

(***************************************************************************)
(* The functions on their own: a specification hands one of them an input  *)
(* from a bounded set and one action applies it.                           *)
(***************************************************************************)
\* line 82: cells.append(clean_html(cell))
CleanHtml ==
  /\ pc = "clean_html"
  /\ cells' = Append(cells, clean_html(cell))
  /\ pc' = "cleaned"
  /\ UNCHANGED <<argv, doc, html, tables, i, csv, page, out, exit>>
  /\ UNCHANGED <<rows, pos, row_start, row_end, row_html, cell_pos, cell>>

InitClean ==
  /\ pc = "clean_html"
  /\ argv = <<ProgName, FilePath>>
  /\ doc = <<>>
  /\ cell \in CleanTexts
  /\ html = <<>> /\ tables = <<>> /\ i = 0 /\ rows = <<>> /\ pos = 0
  /\ row_start = 0 /\ row_end = 0 /\ row_html = <<>> /\ cells = <<>>
  /\ cell_pos = 0 /\ csv = <<>> /\ page = <<>> /\ out = <<>> /\ exit = -1

NextClean == CleanHtml

SpecClean == InitClean /\ [][NextClean]_vars

\* save_csv on the grid in rows, as the only table of a document
InitCsv ==
  /\ pc = "save_csv"
  /\ argv = <<ProgName, FilePath>>
  /\ doc = TABLE_TAG \o TABLE_CLOSE
  /\ html = doc
  /\ tables = <<doc>>
  /\ i = 1
  /\ rows \in CsvGrids
  /\ pos = 0 /\ row_start = 0 /\ row_end = 0 /\ row_html = <<>> /\ cells = <<>>
  /\ cell_pos = 0 /\ cell = <<>> /\ csv = <<>> /\ page = <<>> /\ out = <<>>
  /\ exit = -1

NextCsv == SaveCsv

SpecCsv == InitCsv /\ [][NextCsv]_vars

\* extract_tables on the document in html
InitExtract ==
  /\ pc = "extract_tables"
  /\ argv = <<ProgName, FilePath>>
  /\ doc \in ExtractDocs
  /\ html = doc
  /\ tables = <<>> /\ i = 0 /\ rows = <<>> /\ pos = 0
  /\ row_start = 0 /\ row_end = 0 /\ row_html = <<>> /\ cells = <<>>
  /\ cell_pos = 0 /\ cell = <<>> /\ csv = <<>> /\ page = <<>> /\ out = <<>>
  /\ exit = -1

NextExtract == ExtractTables

SpecExtract == InitExtract /\ [][NextExtract]_vars

(***************************************************************************)
(* What the claims speak of, stated without the program's loops.           *)
(***************************************************************************)
\* the positions where sub occurs in s
Occurrences(s, sub) == {p \in 0..(Len(s) - Len(sub)) : IsAt(s, sub, p)}

\* the k-th smallest member of a set of numbers
Nth(S, k) == CHOOSE x \in S : Cardinality({y \in S : y < x}) = k - 1

\* where the text before the closing tag at e is free again: just past the
\* closing tag before it, or the start of the text
FreeFrom(s, closing, e) ==
  LET before == {q \in Occurrences(s, closing) : q < e}
  IN IF before = {} THEN 0 ELSE MaxOf(before) + Len(closing)

\* the opening markers a closing tag at e can close
OpenersOf(s, opening, closing, e) ==
  {b \in Occurrences(s, opening) : FreeFrom(s, closing, e) <= b /\ b < e}

\* the closing tags that end a block: those with an opening marker since the
\* closing tag before them
BlockEnds(s, opening, closing) ==
  {e \in Occurrences(s, closing) : OpenersOf(s, opening, closing, e) # {}}

BlockStart(s, opening, closing, e) == MinOf(OpenersOf(s, opening, closing, e))

NumBlocks(s, opening, closing) == Cardinality(BlockEnds(s, opening, closing))

\* how often the character c occurs in s
Count(s, c) == Cardinality({k \in 1..Len(s) : s[k] = c})

\* the number of "\n" of a file: its number of lines
NumLines(content) == Count(content, "\n")

\* A CSV reader.  A character lies inside a quoted field when an odd number
\* of double quotes precedes it; commas outside quoted fields separate the
\* fields and newlines outside quoted fields end the records; a blank line
\* is a record of no fields.  A field wrapped in double quotes stands for
\* what is between them, "" standing for one double quote.
QuotesBefore(s, k) == Cardinality({j \in 1..(k - 1) : s[j] = "\""})

\* the positions where the separator c stands outside any quoted field
Breaks(s, c) == {k \in 1..Len(s) : s[k] = c /\ QuotesBefore(s, k) % 2 = 0}

\* s cut at those separators
Pieces(s, c) ==
  LET cuts == Breaks(s, c)
      n == Cardinality(cuts)
  IN [m \in 1..(n + 1) |->
        SubSeq(s, IF m = 1 THEN 1 ELSE Nth(cuts, m - 1) + 1,
                  IF m = n + 1 THEN Len(s) ELSE Nth(cuts, m) - 1)]

\* the text of a quoted field: of every pair "" the second quote is kept
Unescaped(t) ==
  LET kept == {j \in 1..Len(t) : t[j] # "\"" \/ QuotesBefore(t, j) % 2 = 1}
  IN [n \in 1..Cardinality(kept) |-> t[Nth(kept, n)]]

\* a field as read: whether it was wrapped in double quotes, and its text
CsvField(f) ==
  IF Len(f) >= 2 /\ f[1] = "\"" /\ f[Len(f)] = "\""
    THEN [quoted |-> TRUE, text |-> Unescaped(SubSeq(f, 2, Len(f) - 1))]
    ELSE [quoted |-> FALSE, text |-> f]

CsvRecord(line) ==
  IF line = <<>> THEN <<>>
  ELSE LET fields == Pieces(line, ",")
       IN [j \in 1..Len(fields) |-> CsvField(fields[j])]

CsvRecords(content) ==
  LET lines == Pieces(content, "\n")
      whole == IF lines[Len(lines)] = <<>> THEN Len(lines) - 1 ELSE Len(lines)
  IN [k \in 1..whole |-> CsvRecord(lines[k])]

\* the cell strings a CSV reader recovers from a file
CsvTexts(content) ==
  LET recs == CsvRecords(content)
  IN [k \in 1..Len(recs) |-> [j \in 1..Len(recs[k]) |-> recs[k][j].text]]

\* every field of the file is wrapped in double quotes
AllQuoted(content) ==
  LET recs == CsvRecords(content)
  IN \A k \in 1..Len(recs) : \A j \in 1..Len(recs[k]) : recs[k][j].quoted

\* Tag removal in one pass from left to right: a "<" that has a ">" after it
\* opens a deleted span, which the next ">" closes.
RECURSIVE WithoutTags(_, _, _)
WithoutTags(s, k, inside) ==
  IF k > Len(s) THEN <<>>
  ELSE IF inside THEN WithoutTags(s, k + 1, s[k] # ">")
  ELSE IF s[k] = "<" /\ (\E j \in (k + 1)..Len(s) : s[j] = ">")
    THEN WithoutTags(s, k + 1, TRUE)
  ELSE <<s[k]>> \o WithoutTags(s, k + 1, FALSE)

\* \n and \r turned into spaces
Unbroken(s) == [k \in 1..Len(s) |-> IF s[k] \in {"\n", "\r"} THEN " " ELSE s[k]]

\* leading, then trailing whitespace dropped one character at a time
RECURSIVE Trimmed(_)
Trimmed(s) ==
  IF s = <<>> THEN s
  ELSE IF Head(s) \in Whitespace THEN Trimmed(Tail(s))
  ELSE IF s[Len(s)] \in Whitespace THEN Trimmed(SubSeq(s, 1, Len(s) - 1))
  ELSE s

\* the "<" of s that have no ">" after them
Unterminated(s) ==
  {k \in 1..Len(s) : s[k] = "<" /\ \A j \in (k + 1)..Len(s) : s[j] # ">"}

TableEnds(h) == BlockEnds(h, TABLE_OPEN, TABLE_CLOSE)

TableSpan(h, k) ==
  LET e == Nth(TableEnds(h), k)
  IN [start |-> BlockStart(h, TABLE_OPEN, TABLE_CLOSE, e), stop |-> e + Len(TABLE_CLOSE)]

Extracted == pc # "extract_tables" /\ pc # "main" /\ pc # "fetch_html" /\ pc # "crash"

(***************************************************************************)
(* C1: extract_tables returns, in document order, exactly the spans from a *)
(* "<table" through the end of the first "</table>" at or after it; each   *)
(* fragment starts with "<table", ends with "</table>" and holds no other  *)
(* "</table>"; the fragments do not overlap; nothing is emitted once no    *)
(* "<table" or no following "</table>" remains.                            *)
(***************************************************************************)
C1_FragmentsAreTheTableSpans ==
  Extracted =>
    /\ Len(tables) = Cardinality(TableEnds(html))
    /\ \A k \in 1..Len(tables) :
         /\ tables[k] = SubSeq(html, TableSpan(html, k).start + 1, TableSpan(html, k).stop)
         /\ StartsWith(tables[k], TABLE_OPEN)
         /\ Occurrences(tables[k], TABLE_CLOSE) = {Len(tables[k]) - Len(TABLE_CLOSE)}
         /\ k > 1 => TableSpan(html, k - 1).stop <= TableSpan(html, k).start
         /\ \A b \in Occurrences(html, TABLE_OPEN) :
              (IF k = 1 THEN 0 ELSE TableSpan(html, k - 1).stop) <= b
                => TableSpan(html, k).start <= b

\* two fragments were cut out and a third, unclosed "<table" was dropped
C1_Witness ==
  /\ Extracted
  /\ Len(tables) = 2
  /\ \E b \in Occurrences(html, TABLE_OPEN) : b >= TableSpan(html, 2).stop

\* the table holds a "<tr" with a "</tr>" after it: it parses to a row
HasRow(t) == NumBlocks(t, TR_OPEN, TR_CLOSE) >= 1

(***************************************************************************)
(* C2: at the end of a run over a document with k detected tables, the CSV *)
(* files written are exactly output_N.csv for the N in 1..k whose table    *)
(* parses to at least one row; N counts all detected tables, so a table    *)
(* without rows leaves a gap in the numbering.                             *)
(***************************************************************************)
C2_FilesAreTheNonEmptyTables ==
  (pc = "exit" /\ tables # <<>>) =>
    DOMAIN csv = {n \in 1..Len(tables) : HasRow(tables[n])}

\* two tables, the first without rows: output_2.csv alone, output_1.csv missing
C2_Witness ==
  /\ pc = "exit"
  /\ Len(tables) = 2
  /\ ~HasRow(tables[1])
  /\ DOMAIN csv = {2}

(***************************************************************************)
(* C3, as claimed: for a document with exactly one table block, a run      *)
(* produces exactly one output file, whose number of rows is the number of *)
(* <tr> blocks of the source.                                              *)
(***************************************************************************)
C3_OneTableOneFile ==
  (pc = "exit" /\ Len(tables) = 1) =>
    /\ Cardinality(DOMAIN csv) = 1
    /\ 1 \in DOMAIN csv
    /\ NumLines(csv[1]) = NumBlocks(tables[1], TR_OPEN, TR_CLOSE)

(***************************************************************************)
(* C3, amended: for a document with exactly one table block, a run writes  *)
(* no output file but output_1.csv, and writes it only if the table holds  *)
(* at least one <tr ... </tr> block; a run that ends has written it if the *)
(* table holds such a block; the file's number of rows is the number of    *)
(* <tr ... </tr> blocks of the table.                                      *)
(***************************************************************************)
C3_OneTableOneFileIfRows ==
  Len(tables) = 1 =>
    /\ DOMAIN csv \subseteq {1}
    /\ 1 \in DOMAIN csv =>
         /\ HasRow(tables[1])
         /\ NumLines(csv[1]) = NumBlocks(tables[1], TR_OPEN, TR_CLOSE)
         /\ Len(CsvRecords(csv[1])) = NumBlocks(tables[1], TR_OPEN, TR_CLOSE)
    /\ (pc = "exit" /\ HasRow(tables[1])) => 1 \in DOMAIN csv

\* one table of two rows, one of them without cells, written as two lines
C3_Witness ==
  /\ pc = "exit"
  /\ Len(tables) = 1
  /\ 1 \in DOMAIN csv
  /\ NumLines(csv[1]) = 2
  /\ NumBlocks(tables[1], TR_OPEN, TR_CLOSE) = 2

ValidSource == Len(argv) = 2 /\ (IsUrl(argv[2]) \/ argv[2] \in ExistingPaths)

NoFragment(d) ==
  \A b \in Occurrences(d, TABLE_OPEN) : \A e \in Occurrences(d, TABLE_CLOSE) : e < b

(***************************************************************************)
(* C4: when the document yields no table fragment (no "<table", or no      *)
(* "</table>" after the first "<table"), the run prints the no-tables      *)
(* message, exits with status 1, and has written no output_N.csv at any    *)
(* point.                                                                  *)
(***************************************************************************)
C4_NoTablesExitsOne ==
  (ValidSource /\ NoFragment(doc)) =>
    /\ DOMAIN csv = {}
    /\ pc \notin {"parse_table", "row_loop", "cell_loop", "save_csv"}
    /\ pc = "exit" => (exit = 1 /\ out # <<>> /\ out[Len(out)] = "no tables")

\* a document whose only "<table" is never closed has ended the run
C4_Witness ==
  /\ pc = "exit"
  /\ ValidSource
  /\ NoFragment(doc)
  /\ Occurrences(doc, TABLE_OPEN) # {}
  /\ Occurrences(doc, TABLE_CLOSE) # {}

HeSaidHi == <<"H", "e", " ", "s", "a", "i", "d", " ", "\"", "h", "i", "\"">>

HeSaidHiLine ==
  <<"\"", "H", "e", " ", "s", "a", "i", "d", " ", "\"", "\"", "h", "i", "\"", "\"", "\"", "\n">>

Saved == pc \in {"exit", "parse_table"} /\ rows # <<>>

(***************************************************************************)
(* C5: save_csv writes one line per row of the grid, every cell wrapped in *)
(* double quotes with each embedded double quote doubled, the cells joined *)
(* by commas; reading the file back with a CSV reader recovers exactly the *)
(* original cell strings.                                                  *)
(***************************************************************************)
C5_CsvRoundTrip ==
  (Saved /\ i = 1) =>
    /\ 1 \in DOMAIN csv
    /\ CsvTexts(csv[1]) = rows
    /\ AllQuoted(csv[1])
    /\ Count(csv[1], "\"") = 2 * Len(Concat(rows)) + 2 * Count(Concat(Concat(rows)), "\"")
    /\ Len(csv[1]) =
         Len(rows) + Len(Concat(rows)) - Cardinality({k \in 1..Len(rows) : rows[k] # <<>>})
           + 2 * Len(Concat(rows)) + Len(Concat(Concat(rows)))
           + Count(Concat(Concat(rows)), "\"")
    /\ rows = <<<<HeSaidHi>>>> => csv[1] = HeSaidHiLine

C5_Witness ==
  /\ Saved
  /\ rows = <<<<HeSaidHi>>>>
  /\ csv[1] = HeSaidHiLine

BoldText ==
  <<"<", "b", ">", "B", "o", "l", "d", "<", "/", "b", ">", " ", "t", "e", "x", "t">>

(***************************************************************************)
(* C6: clean_html deletes every span from a "<" through the first ">"      *)
(* after it, turns every \n and \r into a space and trims the whitespace   *)
(* at both ends; the result holds no "<" with a later ">", no \n and no    *)
(* \r, and every "<" without a later ">" is left in place.                 *)
(***************************************************************************)
C6_CleanHtml ==
  pc = "cleaned" =>
    LET r == cells[Len(cells)]
    IN /\ r = Trimmed(Unbroken(WithoutTags(cell, 1, FALSE)))
       /\ \A k \in 1..Len(r) : r[k] = "<" => \A j \in (k + 1)..Len(r) : r[j] # ">"
       /\ \A k \in 1..Len(r) : r[k] # "\n" /\ r[k] # "\r"
       /\ Cardinality(Unterminated(r)) = Cardinality(Unterminated(cell))
       /\ cell = BoldText => r = <<"B", "o", "l", "d", " ", "t", "e", "x", "t">>

C6_Witness ==
  /\ pc = "cleaned"
  /\ cell = BoldText
  /\ cells = <<<<"B", "o", "l", "d", " ", "t", "e", "x", "t">>>>

TrEnds(t) == BlockEnds(t, TR_OPEN, TR_CLOSE)

\* the "<tr" of t with no "</tr>" after them
UnclosedTr(t) ==
  {b \in Occurrences(t, TR_OPEN) : \A e \in Occurrences(t, TR_CLOSE) : e < b}

\* the table parse_table has last returned from, 0 if none
LastParsed ==
  IF pc = "parse_table" THEN i - 1
  ELSE IF pc \in {"save_csv", "exit"} THEN i
  ELSE 0

(***************************************************************************)
(* C7: in a table fragment where some "<tr" has no "</tr>" after it,       *)
(* parse_table stops scanning at that "<tr": what it returns are the rows  *)
(* of the closed <tr ... </tr> spans before it, in document order, and     *)
(* those rows, when there is one, are what the table's CSV file holds.     *)
(***************************************************************************)
C7_UnclosedRowStopsTheScan ==
  /\ (pc = "cell_loop" /\ UnclosedTr(tables[i]) # {}) =>
       LET t == tables[i]
       IN /\ Len(rows) < Cardinality(TrEnds(t))
          /\ row_end = Nth(TrEnds(t), Len(rows) + 1)
          /\ row_start = BlockStart(t, TR_OPEN, TR_CLOSE, row_end)
          /\ row_end < MinOf(UnclosedTr(t))
          /\ row_html = SubSeq(t, row_start + 1, row_end)
  /\ (LastParsed >= 1 /\ UnclosedTr(tables[LastParsed]) # {}) =>
       LET t == tables[LastParsed]
       IN /\ row_start = MinOf(UnclosedTr(t))
          /\ row_end = -1
          /\ Len(rows) = Cardinality(TrEnds(t))
          /\ pc # "save_csv" =>
               IF TrEnds(t) # {}
                 THEN /\ LastParsed \in DOMAIN csv
                      /\ CsvTexts(csv[LastParsed]) = rows
                 ELSE LastParsed \notin DOMAIN csv

\* two closed rows before an unclosed "<tr" were returned and written
C7_Witness ==
  /\ pc = "exit"
  /\ i >= 1
  /\ UnclosedTr(tables[i]) # {}
  /\ Len(rows) = 2
  /\ i \in DOMAIN csv
  /\ NumLines(csv[i]) = 2

(***************************************************************************)
(* C8: with a wrong argument count, or a single argument that neither      *)
(* starts with http:// or https:// nor names an existing file, the run     *)
(* prints a message and exits with status 1, and writes neither page.html  *)
(* nor any output_N.csv.                                                   *)
(***************************************************************************)
C8_BadInvocationWritesNothing ==
  ~ValidSource =>
    /\ page = <<>>
    /\ DOMAIN csv = {}
    /\ pc \in {"main", "fetch_html", "exit"}
    /\ pc = "exit" =>
         /\ exit = 1
         /\ out = <<IF Len(argv) # 2 THEN "usage" ELSE "source not found">>

\* a run given the path of no file has ended
C8_Witness ==
  /\ pc = "exit"
  /\ Len(argv) = 2
  /\ ~ValidSource
  /\ exit = 1

Markers(row) == Occurrences(row, TD_OPEN) \cup Occurrences(row, TH_OPEN)

MarkersFrom(row, from) == {m \in Markers(row) : m >= from}

ClosingOf(row, m) == IF IsAt(row, TD_OPEN, m) THEN TD_CLOSE ELSE TH_CLOSE

(***************************************************************************)
(* C9: each pass of the cell loop takes the first "<td" or "<th" at or     *)
(* after the cursor (it stops when there is none), takes as content the    *)
(* text between the next ">" after that marker and the next closing tag of *)
(* the marker's kind, appends the cleaned content, and moves the cursor    *)
(* just past that closing tag; a row so holds one cell per marker.         *)
(***************************************************************************)
C9_CellLoopTakesTheNextCell ==
  [][pc = "cell_loop" =>
       IF MarkersFrom(row_html, cell_pos) = {}
         THEN pc' = "row_loop" /\ rows' = Append(rows, cells)
         ELSE LET m == MinOf(MarkersFrom(row_html, cell_pos))
                  gts == {g \in Occurrences(row_html, GT) : g >= m}
              IN /\ gts # {}
                 /\ LET from == MinOf(gts) + 1
                        ends == {e \in Occurrences(row_html, ClosingOf(row_html, m)) :
                                   e >= from}
                    IN /\ ends # {}
                       /\ cells' =
                            Append(cells,
                                   Trimmed(Unbroken(WithoutTags(
                                     SubSeq(row_html, from + 1, MinOf(ends)), 1, FALSE))))
                       /\ cell_pos' = MinOf(ends) + Len(ClosingOf(row_html, m))
                 /\ Len(cells') <= Cardinality(Markers(row_html))]_vars

(***************************************************************************)
(* C10: parse_table terminates on every fragment: every pass of the cell   *)
(* loop leaves cell_pos strictly beyond the marker it consumed, and every  *)
(* pass of the row loop strictly increases pos.                            *)
(***************************************************************************)
C10_CursorsAdvance ==
  [][/\ (pc = "cell_loop" /\ pc' = "cell_loop") =>
          cell_pos' > MinOf(MarkersFrom(row_html, cell_pos))
     /\ (pc = "cell_loop" /\ pc' = "row_loop") => pos' > pos]_vars
====
